---------------------------- MODULE Spec2Model ----------------------------
(***************************************************************************)
(* SMAD Picklebot (src/webhook/picklebot/main.py): the command pipeline of *)
(* the WhatsApp chatbot cloud function.                                    *)
(*                                                                         *)
(* Texts are sequences of one-character strings, so that lowercasing,      *)
(* trimming, substring search and the regular-expression substitutions of  *)
(* the source are computed, character by character, as Python computes     *)
(* them.  JSON values are records with a type tag t.                       *)
(***************************************************************************)
EXTENDS Integers, Sequences, FiniteSets, TLC

VARIABLES
    cfg,    \* the environment-derived module configuration (lines 43-50)
    pc,     \* position of picklebot_webhook in the current request
    req,    \* the inbound HTTP request
    cmd,    \* locals of picklebot_webhook: command_text, chat_id, dry_run
    pcs,    \* locals of process_command: cleaned_command, is_dry_run, intent_data
    result, \* the dict process_command returned
    net,    \* the external calls made for the current request
    resp,   \* the HTTP response of the current request
    tx      \* the text functions applied to one text (specification SpecText)

vars == <<cfg, pc, req, cmd, pcs, result, net, resp, tx>>

---------------------------------------------------------------------------
(* Characters and strings                                                  *)

UpperCase == <<"A", "B", "C", "D", "E", "F", "G", "H", "I", "J", "K", "L", "M",
               "N", "O", "P", "Q", "R", "S", "T", "U", "V", "W", "X", "Y", "Z">>

LowerCase == <<"a", "b", "c", "d", "e", "f", "g", "h", "i", "j", "k", "l", "m",
               "n", "o", "p", "q", "r", "s", "t", "u", "v", "w", "x", "y", "z">>

\* str.lower() on one (ASCII) character
LowerChar(c) ==
    IF \E i \in 1..26 : UpperCase[i] = c
    THEN LowerCase[CHOOSE i \in 1..26 : UpperCase[i] = c]
    ELSE c

\* str.lower()
Lower(s) == [i \in 1..Len(s) |-> LowerChar(s[i])]

\* the characters str.strip() and the regular expression \s take as whitespace
IsSpace(c) == c \in {" ", "\t", "\n"}

\* p occurs in s at position i
MatchAt(s, p, i) ==
    /\ i + Len(p) - 1 <= Len(s)
    /\ \A k \in 1..Len(p) : s[i + k - 1] = p[k]

\* str.startswith
StartsWith(s, p) == MatchAt(s, p, 1)

\* the Python operator `p in s` on strings
Contains(s, p) == \E i \in 1..(Len(s) - Len(p) + 1) : MatchAt(s, p, i)

\* s[n:]
Drop(s, n) == IF n >= Len(s) THEN <<>> ELSE SubSeq(s, n + 1, Len(s))

RECURSIVE LStrip(_)
LStrip(s) ==
    IF s = <<>> THEN <<>>
    ELSE IF IsSpace(Head(s)) THEN LStrip(Tail(s)) ELSE s

RECURSIVE RStrip(_)
RStrip(s) ==
    IF s = <<>> THEN <<>>
    ELSE IF IsSpace(s[Len(s)]) THEN RStrip(SubSeq(s, 1, Len(s) - 1)) ELSE s

\* str.strip()
Strip(s) == RStrip(LStrip(s))

\* str.replace(p, '') and re.sub(re.escape(p), '', s): the non-overlapping
\* occurrences of p, found left to right from position i on, are deleted;
\* m is the text the occurrences are looked up in (s itself, or its lowercase
\* for re.IGNORECASE)
RECURSIVE DeleteFrom(_, _, _, _)
DeleteFrom(s, m, p, i) ==
    IF i > Len(s) THEN <<>>
    ELSE IF MatchAt(m, p, i) THEN DeleteFrom(s, m, p, i + Len(p))
    ELSE <<s[i]>> \o DeleteFrom(s, m, p, i + 1)

\* str.replace(p, '')
Replace(s, p) == DeleteFrom(s, s, p, 1)

\* re.compile(re.escape(p), re.IGNORECASE).sub('', s), p in lowercase
SubIgnoreCase(s, p) == DeleteFrom(s, Lower(s), p, 1)

\* re.sub(r'\s+', ' ', s): every maximal run of whitespace becomes one space
RECURSIVE CollapseFrom(_, _)
CollapseFrom(s, i) ==
    IF i > Len(s) THEN <<>>
    ELSE IF IsSpace(s[i])
         THEN IF i > 1 /\ IsSpace(s[i - 1])
              THEN CollapseFrom(s, i + 1)
              ELSE <<" ">> \o CollapseFrom(s, i + 1)
         ELSE <<s[i]>> \o CollapseFrom(s, i + 1)

CollapseSpaces(s) == CollapseFrom(s, 1)

\* the elements of a sequence
Range(q) == {q[i] : i \in 1..Len(q)}

Min(S) == CHOOSE x \in S : \A y \in S : x <= y

---------------------------------------------------------------------------
(* String literals of the source                                           *)

P_pb == <<"/", "p", "b", " ">>
P_picklebot == <<"/", "p", "i", "c", "k", "l", "e", "b", "o", "t", " ">>

\* line 69
COMMAND_PREFIXES == <<P_pb, P_picklebot>>

F_dry_run_long == <<"-", "-", "d", "r", "y", "-", "r", "u", "n">>
F_dry_long == <<"-", "-", "d", "r", "y">>
F_n == <<"-", "n">>
F_dry_run_words == <<"d", "r", "y", " ", "r", "u", "n">>
F_dryrun == <<"d", "r", "y", "r", "u", "n">>

\* line 72
DRY_RUN_FLAGS == <<F_dry_run_long, F_dry_long, F_n, F_dry_run_words, F_dryrun>>

W_help == <<"h", "e", "l", "p">>
W_qmark == <<"?">>
W_commands == <<"c", "o", "m", "m", "a", "n", "d", "s">>
W_deadbeats == <<"d", "e", "a", "d", "b", "e", "a", "t", "s">>
W_deadbeat == <<"d", "e", "a", "d", "b", "e", "a", "t">>
W_owes == <<"o", "w", "e", "s">>
W_outstanding == <<"o", "u", "t", "s", "t", "a", "n", "d", "i", "n", "g">>
W_balance == <<"b", "a", "l", "a", "n", "c", "e">>
W_book == <<"b", "o", "o", "k">>
W_poll == <<"p", "o", "l", "l">>
W_create == <<"c", "r", "e", "a", "t", "e">>
W_reminder == <<"r", "e", "m", "i", "n", "d", "e", "r">>
W_status == <<"s", "t", "a", "t", "u", "s">>
W_health == <<"h", "e", "a", "l", "t", "h">>
W_vote == <<"v", "o", "t", "e">>

---------------------------------------------------------------------------
(* JSON values                                                             *)

\* a scalar: t is absent (no such key), str, num or null; s is its text
Absent == [t |-> "absent", s |-> <<>>]
JStr(s) == [t |-> "str", s |-> s]
JNum(s) == [t |-> "num", s |-> s]
JNull == [t |-> "null", s |-> <<>>]

\* the value under 'intent': a string name, or absent, null or a number
NoIntent == [t |-> "absent", name |-> ""]
IntentName(n) == [t |-> "str", name |-> n]
IntentNull == [t |-> "null", name |-> ""]
IntentNum == [t |-> "num", name |-> "7"]

\* the value under 'confirmation_required'
NoConf == [t |-> "absent", b |-> FALSE]
ConfBool(b) == [t |-> "bool", b |-> b]

\* the value under 'params': a mapping (t = "map") with the keys the handlers
\* read, or absent, or a JSON value that is no mapping (t is the name of its
\* Python type: NoneType, str, list)
EmptyParams ==
    [t |-> "map", raw |-> Absent, player_name |-> Absent, type |-> Absent,
     date |-> Absent, time |-> Absent, duration_minutes |-> Absent,
     court |-> Absent]

NoParams == [EmptyParams EXCEPT !.t = "absent"]
ParamsNotMap(t) == [EmptyParams EXCEPT !.t = t]

\* what json.loads returns for the classifier's answer: an object (t = "obj")
\* with its three keys, or a JSON value that is no object (t is the name of its
\* Python type: list, str, int, bool, NoneType)
IntentObj(i, p, c) == [t |-> "obj", intent |-> i, params |-> p, conf |-> c]
NotObj(t) == [t |-> t, intent |-> NoIntent, params |-> NoParams, conf |-> NoConf]

\* the enumeration of intents (lines 146-152, 233)
ReadOnlyIntents == {"help", "show_deadbeats", "show_balances", "show_status"}
ActionIntents == {"book_court", "create_poll", "send_reminders"}
Intents == ReadOnlyIntents \cup ActionIntents \cup {"unknown"}

---------------------------------------------------------------------------
(* Command Normalizer: extract_dry_run_flag (lines 75-94)                  *)

\* the flags of DRY_RUN_FLAGS found in the lowercased text, by position in the list
FlagsIn(command_text) ==
    {i \in 1..Len(DRY_RUN_FLAGS) : Contains(Lower(command_text), DRY_RUN_FLAGS[i])}

\* lines 88-91: the flag deleted ignoring case, the text trimmed, whitespace
\* collapsed, the text trimmed again
RemoveFlag(command_text, flag) ==
    Strip(CollapseSpaces(Strip(SubIgnoreCase(command_text, flag))))

\* mutant: the command prefix is removed along with the flag
extract_dry_run_flag_and_prefix(command_text) ==
    LET cleaned == IF FlagsIn(command_text) = {} THEN command_text
                   ELSE RemoveFlag(command_text,
                                   DRY_RUN_FLAGS[Min(FlagsIn(command_text))])
        hits == {i \in 1..Len(COMMAND_PREFIXES) :
                    StartsWith(Lower(cleaned), COMMAND_PREFIXES[i])}
    IN  [text |-> IF hits = {} THEN cleaned
                  ELSE Strip(Drop(cleaned, Len(COMMAND_PREFIXES[Min(hits)]))),
         dry |-> FlagsIn(command_text) # {}]

\* mutant: of the flags found, the one listed last is removed
extract_dry_run_flag_last_listed(command_text) ==
    IF FlagsIn(command_text) = {}
    THEN [text |-> command_text, dry |-> FALSE]
    ELSE [text |-> RemoveFlag(command_text,
                      DRY_RUN_FLAGS[CHOOSE i \in FlagsIn(command_text) :
                                       \A j \in FlagsIn(command_text) : j <= i]),
          dry |-> TRUE]

extract_dry_run_flag(command_text) ==
    IF FlagsIn(command_text) = {}
    THEN [text |-> command_text, dry |-> FALSE]
    ELSE [text |-> RemoveFlag(command_text, DRY_RUN_FLAGS[Min(FlagsIn(command_text))]),
          dry |-> TRUE]

---------------------------------------------------------------------------
(* Fallback classifier: parse_intent_fallback (lines 200-233)              *)

\* lines 202-208: lowercase, trim, remove the first matching command prefix
StripPrefix(command_text) ==
    LET text == Strip(Lower(command_text))
        hits == {i \in 1..Len(COMMAND_PREFIXES) : StartsWith(text, Lower(COMMAND_PREFIXES[i]))}
    IN  IF hits = {} THEN text
        ELSE Strip(Drop(text, Len(COMMAND_PREFIXES[Min(hits)])))

\* lines 216-218
BalanceParams(text) ==
    LET name == Strip(Replace(text, W_balance))
    IN  IF name # <<>> THEN [EmptyParams EXCEPT !.player_name = JStr(name)]
        ELSE EmptyParams

\* mutant: the rule for 'reminder' is tried before the rule for 'book'
FallbackRulesReminderFirst(text) ==
    IF text \in {W_help, W_qmark, W_commands}
    THEN IntentObj(IntentName("help"), EmptyParams, ConfBool(FALSE))
    ELSE IF text \in {W_deadbeats, W_deadbeat, W_owes, W_outstanding}
    THEN IntentObj(IntentName("show_deadbeats"), EmptyParams, ConfBool(FALSE))
    ELSE IF StartsWith(text, W_balance)
    THEN IntentObj(IntentName("show_balances"), BalanceParams(text), ConfBool(FALSE))
    ELSE IF Contains(text, W_reminder)
    THEN IntentObj(IntentName("send_reminders"),
                   [EmptyParams EXCEPT !.type = JStr(W_vote)], ConfBool(TRUE))
    ELSE IF StartsWith(text, W_book)
    THEN IntentObj(IntentName("book_court"),
                   [EmptyParams EXCEPT !.raw = JStr(text)], ConfBool(TRUE))
    ELSE IF Contains(text, W_poll) /\ Contains(text, W_create)
    THEN IntentObj(IntentName("create_poll"), EmptyParams, ConfBool(TRUE))
    ELSE IF text \in {W_status, W_health}
    THEN IntentObj(IntentName("show_status"), EmptyParams, ConfBool(FALSE))
    ELSE IntentObj(IntentName("unknown"),
                   [EmptyParams EXCEPT !.raw = JStr(text)], ConfBool(FALSE))

\* lines 210-233: the rules, in the order of the source
FallbackRules(text) ==
    IF text \in {W_help, W_qmark, W_commands}
    THEN IntentObj(IntentName("help"), EmptyParams, ConfBool(FALSE))
    ELSE IF text \in {W_deadbeats, W_deadbeat, W_owes, W_outstanding}
    THEN IntentObj(IntentName("show_deadbeats"), EmptyParams, ConfBool(FALSE))
    ELSE IF StartsWith(text, W_balance)
    THEN IntentObj(IntentName("show_balances"), BalanceParams(text), ConfBool(FALSE))
    ELSE IF StartsWith(text, W_book)
    THEN IntentObj(IntentName("book_court"),
                   [EmptyParams EXCEPT !.raw = JStr(text)], ConfBool(TRUE))
    ELSE IF Contains(text, W_poll) /\ Contains(text, W_create)
    THEN IntentObj(IntentName("create_poll"), EmptyParams, ConfBool(TRUE))
    ELSE IF Contains(text, W_reminder)
    THEN IntentObj(IntentName("send_reminders"),
                   [EmptyParams EXCEPT !.type = JStr(W_vote)], ConfBool(TRUE))
    ELSE IF text \in {W_status, W_health}
    THEN IntentObj(IntentName("show_status"), EmptyParams, ConfBool(FALSE))
    ELSE IntentObj(IntentName("unknown"),
                   [EmptyParams EXCEPT !.raw = JStr(text)], ConfBool(FALSE))

parse_intent_fallback(command_text) == FallbackRules(StripPrefix(command_text))

---------------------------------------------------------------------------
(* The natural-language service and parse_intent_with_claude (lines 135-197) *)

\* The text of the service's answer, content[0]['text'], is a sequence of
\* tokens: a code fence ```, a run of word characters, a newline, a space,
\* other text that is no JSON, or the text of one JSON value (val).
Tok(k) == [k |-> k, val |-> NotObj("none")]
JTok(v) == [k |-> "json", val |-> v]

IsSpaceTok(tk) == tk.k \in {"nl", "sp"}

RECURSIVE LStripToks(_)
LStripToks(q) ==
    IF q = <<>> THEN <<>>
    ELSE IF IsSpaceTok(Head(q)) THEN LStripToks(Tail(q)) ELSE q

RECURSIVE RStripToks(_)
RStripToks(q) ==
    IF q = <<>> THEN <<>>
    ELSE IF IsSpaceTok(q[Len(q)]) THEN RStripToks(SubSeq(q, 1, Len(q) - 1)) ELSE q

\* line 186: content.strip()
StripToks(q) == RStripToks(LStripToks(q))

\* a token whose text begins with word characters: a word, or the text of a
\* JSON number, true, false or null
IsWordTok(tk) ==
    tk.k = "word" \/ (tk.k = "json" /\ tk.val.t \in {"int", "bool", "NoneType"})

\* line 188: re.sub(r'^```\w*\n?', '', content), content beginning with ```
DropOpeningFence(q) ==
    LET a == Tail(q)
        b == IF a # <<>> /\ IsWordTok(Head(a)) THEN Tail(a) ELSE a
    IN  IF b # <<>> /\ Head(b).k = "nl" THEN Tail(b) ELSE b

\* line 189: re.sub(r'\n?```$', '', content)
DropClosingFence(q) ==
    IF q # <<>> /\ q[Len(q)].k = "fence"
    THEN LET a == SubSeq(q, 1, Len(q) - 1)
         IN  IF a # <<>> /\ a[Len(a)].k = "nl" THEN SubSeq(a, 1, Len(a) - 1) ELSE a
    ELSE q

\* lines 186-189
CleanMarkdown(q) ==
    LET content == StripToks(q)
    IN  IF content # <<>> /\ Head(content).k = "fence"
        THEN DropClosingFence(DropOpeningFence(content))
        ELSE content

\* line 190: json.loads accepts one JSON value with whitespace around it and
\* raises on anything else
JsonLoads(q) ==
    LET c == StripToks(q)
    IN  IF Len(c) = 1 /\ c[1].k = "json"
        THEN [ok |-> TRUE, val |-> c[1].val]
        ELSE [ok |-> FALSE, val |-> NotObj("none")]

\* The outcome of requests.post to the service (lines 167-180):
\*   kind    "raise" (connection error, timeout) or "http"
\*   status  the HTTP status code
\*   body    "empty", "notjson" (response.json() raises), or the JSON body:
\*           "list" (no object) or "obj"
\*   content the body's 'content': "absent", "null", "empty_list" or "list"
\*   first   content[0]: "notdict" or "dict"
\*   text    content[0]['text']: "absent", "null" or "str"
\*   toks    the text
LLMReply(kind, status, body, content, first, text, toks) ==
    [kind |-> kind, status |-> status, body |-> body, content |-> content,
     first |-> first, text |-> text, toks |-> toks]

NoReply == LLMReply("none", 0, "empty", "absent", "notdict", "absent", <<>>)

\* lines 183-190: what the 200 branch returns, or that it raised
ParseReplyBody(reply) ==
    LET raised == [ok |-> FALSE, val |-> NotObj("none")]
        empty_object == [ok |-> TRUE, val |-> IntentObj(NoIntent, NoParams, NoConf)]
    IN  IF reply.body # "obj" THEN raised
        ELSE IF reply.content = "absent" THEN empty_object
        ELSE IF reply.content # "list" THEN raised
        ELSE IF reply.first # "dict" THEN raised
        ELSE IF reply.text = "absent" THEN empty_object
        ELSE IF reply.text # "str" THEN raised
        ELSE JsonLoads(CleanMarkdown(reply.toks))

\* the service call ended in one of the failures that lead to the fallback:
\* an exception of requests.post, a status other than 200, or an exception
\* raised while the body is read and parsed
CallFailed(reply) ==
    \/ reply.kind = "raise"
    \/ reply.status # 200
    \/ ~ParseReplyBody(reply).ok

\* mutant: a status other than 200 gives the intent unknown, not the fallback
parse_intent_with_claude_no_fallback_on_status(command_text, api_key, reply) ==
    IF ~api_key THEN parse_intent_fallback(command_text)
    ELSE IF reply.kind = "raise" THEN parse_intent_fallback(command_text)
    ELSE IF reply.status = 200
         THEN IF ParseReplyBody(reply).ok
              THEN ParseReplyBody(reply).val
              ELSE parse_intent_fallback(command_text)
         ELSE IntentObj(IntentName("unknown"), EmptyParams, ConfBool(FALSE))

\* parse_intent_with_claude; api_key is ANTHROPIC_API_KEY being set
parse_intent_with_claude(command_text, api_key, reply) ==
    IF ~api_key THEN parse_intent_fallback(command_text)
    ELSE IF reply.kind = "raise" THEN parse_intent_fallback(command_text)
    ELSE IF reply.status = 200
         THEN IF ParseReplyBody(reply).ok
              THEN ParseReplyBody(reply).val
              ELSE parse_intent_fallback(command_text)
         ELSE parse_intent_fallback(command_text)

---------------------------------------------------------------------------
(* The spreadsheet and get_player_balances (lines 236-297)                 *)

\* a player: the combined name and the balance in cents (positive = owes)
Player(name, cents) == [name |-> name, cents |-> cents]

\* A row of the sheet: n is len(row); first, last and bal are the cells of
\* COL_FIRST_NAME, COL_LAST_NAME and COL_BALANCE.  The balance cell is
\*   "number"  a text float() parses once '$' and ',' are removed (cents)
\*   "blank"   empty once stripped: read as '0'
\*   "text"    float() raises ValueError: the balance is 0
\*   "notstr"  no string: .replace raises AttributeError
Row(n, first, last, k, cents) ==
    [n |-> n, first |-> first, last |-> last, bal |-> [k |-> k, cents |-> cents]]

\* line 66
COL_BALANCE == 7

\* lines 275-280: the rows that give a player
IsPlayerRow(row) == row.n > COL_BALANCE /\ row.first # <<>>

\* lines 282-291
RowPlayer(row) ==
    Player(Strip(row.first \o <<" ">> \o row.last),
           IF row.bal.k = "number" THEN row.bal.cents ELSE 0)

RECURSIVE RowsPlayers(_)
RowsPlayers(rows) ==
    IF rows = <<>> THEN <<>>
    ELSE IF IsPlayerRow(Head(rows))
         THEN <<RowPlayer(Head(rows))>> \o RowsPlayers(Tail(rows))
         ELSE RowsPlayers(Tail(rows))

\* mutant: a balance cell that is no string is read as 0 and the rows are kept
get_player_balances_keeps_rows(sheet) ==
    IF sheet.kind # "ok" THEN <<>> ELSE RowsPlayers(sheet.rows)

\* The outcome of the spreadsheet read: kind is "no_service" (get_sheets_service
\* returns None), "raise" (the request raises or times out) or "ok" with the
\* rows after the header.  get_player_balances returns [] on every failure,
\* a cell of a player row that is no string included.
get_player_balances(sheet) ==
    IF sheet.kind # "ok" THEN <<>>
    ELSE IF \E i \in 1..Len(sheet.rows) :
                IsPlayerRow(sheet.rows[i]) /\ sheet.rows[i].bal.k = "notstr"
         THEN <<>>
         ELSE RowsPlayers(sheet.rows)

---------------------------------------------------------------------------
(* Handlers (lines 301-452)                                                *)

\* A message is the template a handler fills and what goes in its holes:
\*   val    the echoed text, the reminder type or the name searched for
\*   book   date, time, duration and court of the booking preview
\*   rows   the players listed, in the order listed
\*   total  the total printed, in cents
\*   status the connectivity flags and the time of the status message
NoBook == [date |-> Absent, time |-> Absent, duration |-> Absent, court |-> Absent]
NoStatus == [greenapi |-> FALSE, claude |-> FALSE, github |-> FALSE,
             sheets |-> FALSE, time |-> "none"]

Message(tpl) ==
    [tpl |-> tpl, dry_run_marker |-> FALSE, val |-> Absent, book |-> NoBook,
     rows |-> <<>>, total |-> 0, status |-> NoStatus]

NoMessage == Message("none")

\* what a handler does: it returns a message, or raises
Returned(m) == [raised |-> FALSE, msg |-> m, error |-> "none"]
Raised(e) == [raised |-> TRUE, msg |-> NoMessage, error |-> e]

\* list.sort(key=balance, reverse=True): stable, descending
RECURSIVE InsertDesc(_, _)
InsertDesc(p, sorted) ==
    IF sorted = <<>> THEN <<p>>
    ELSE IF Head(sorted).cents >= p.cents
         THEN <<Head(sorted)>> \o InsertDesc(p, Tail(sorted))
         ELSE <<p>> \o sorted

RECURSIVE SortDesc(_)
SortDesc(players) ==
    IF players = <<>> THEN <<>>
    ELSE InsertDesc(players[Len(players)], SortDesc(SubSeq(players, 1, Len(players) - 1)))

RECURSIVE SumCents(_)
SumCents(players) ==
    IF players = <<>> THEN 0 ELSE Head(players).cents + SumCents(Tail(players))

\* handle_help (lines 301-324)
handle_help == Message("help")

\* mutant: every player with a balance other than 0 counts as a deadbeat
handle_deadbeats_nonzero(players) ==
    LET deadbeats == SelectSeq(players, LAMBDA p : p.cents # 0)
    IN  IF deadbeats = <<>> THEN Message("no_outstanding")
        ELSE [Message("outstanding") EXCEPT !.rows = SortDesc(deadbeats),
                                            !.total = SumCents(deadbeats)]

\* handle_deadbeats (lines 327-344)
handle_deadbeats(players) ==
    LET deadbeats == SelectSeq(players, LAMBDA p : p.cents > 0)
    IN  IF deadbeats = <<>> THEN Message("no_outstanding")
        ELSE [Message("outstanding") EXCEPT !.rows = SortDesc(deadbeats),
                                            !.total = SumCents(deadbeats)]

\* `if player_name`: None, '' and 0 are false
Truthy(v) ==
    /\ v.t \in {"str", "num"}
    /\ v.s # <<>>
    /\ ~(v.t = "num" /\ v.s = <<"0">>)

\* mutant: the name is searched for as written, case and all
MatchesCaseSensitive(name, players) ==
    SelectSeq(players, LAMBDA p : Contains(p.name, name))

\* lines 353-354: the players whose name has the lowercased name in it
Matches(name, players) ==
    SelectSeq(players, LAMBDA p : Contains(Lower(p.name), Lower(name)))

\* mutant: the total is the sum of all balances
AllBalancesNetTotal(players) ==
    [Message("all_balances")
        EXCEPT !.rows = SelectSeq(SortDesc(players), LAMBDA p : p.cents # 0),
               !.total = SumCents(players)]

\* lines 372-382: all players, sorted; the nonzero balances are listed
AllBalances(players) ==
    [Message("all_balances")
        EXCEPT !.rows = SelectSeq(SortDesc(players), LAMBDA p : p.cents # 0),
               !.total = SumCents(SelectSeq(players, LAMBDA p : p.cents > 0))]

\* handle_balances (lines 347-382); player_name is params.get('player_name')
handle_balances(player_name, players) ==
    IF Truthy(player_name)
    THEN IF player_name.t # "str"
         THEN Raised("AttributeError: no attribute 'lower'")
         ELSE LET matches == Matches(player_name.s, players)
              IN  IF matches = <<>>
                  THEN Returned([Message("not_found") EXCEPT !.val = player_name])
                  ELSE IF Len(matches) = 1
                  THEN Returned([Message(IF matches[1].cents > 0 THEN "owes"
                                         ELSE IF matches[1].cents < 0 THEN "has_credit"
                                         ELSE "paid_up")
                                   EXCEPT !.rows = matches,
                                          !.total = IF matches[1].cents < 0
                                                    THEN 0 - matches[1].cents
                                                    ELSE matches[1].cents])
                  ELSE Returned([Message("multiple_matches")
                                   EXCEPT !.val = player_name, !.rows = matches])
    ELSE Returned(AllBalances(players))

\* handle_status (lines 385-399); now is the clock's reading
handle_status(config, now) ==
    [Message("status") EXCEPT !.status =
        [greenapi |-> config.greenapi_instance, claude |-> config.anthropic_key,
         github |-> config.github_token, sheets |-> config.spreadsheet_id,
         time |-> now]]

\* mutant: the message does not echo the text
handle_unknown_no_echo(raw_text) == Message("unknown")

\* handle_unknown (lines 402-408)
handle_unknown(raw_text) == [Message("unknown") EXCEPT !.val = raw_text]

\* dict.get(key, default) on a key of params
GetOr(v, default) == IF v.t = "absent" THEN default ELSE v

\* handle_book_court_preview (lines 411-430)
handle_book_court_preview(params) ==
    [Message("book_court_preview") EXCEPT !.book =
        [date |-> GetOr(params.date, JStr(<<"u", "n", "k", "n", "o", "w", "n">>)),
         time |-> GetOr(params.time, JStr(<<"u", "n", "k", "n", "o", "w", "n">>)),
         duration |-> GetOr(params.duration_minutes, JNum(<<"1", "2", "0">>)),
         court |-> GetOr(params.court, JStr(<<"b", "o", "t", "h">>))]]

\* handle_create_poll_preview (lines 433-441)
handle_create_poll_preview == Message("create_poll_preview")

\* handle_send_reminders_preview (lines 444-452)
handle_send_reminders_preview(reminder_type) ==
    [Message("send_reminders_preview") EXCEPT !.val = reminder_type]

---------------------------------------------------------------------------
(* process_command (lines 455-515)                                         *)

\* mutant: the dry-run flag of the command text is ignored
EffectiveDryRunOverrideOnly(dry_run, text_has_dry_run) == dry_run

\* line 468
EffectiveDryRun(dry_run, text_has_dry_run) == dry_run \/ text_has_dry_run

\* line 477: intent_data.get('intent', 'unknown')
IntentOf(intent_data) ==
    IF intent_data.intent.t = "absent" THEN IntentName("unknown")
    ELSE intent_data.intent

\* line 478: intent_data.get('params', {})
ParamsOf(intent_data) ==
    IF intent_data.params.t = "absent" THEN EmptyParams ELSE intent_data.params

\* calling .get on a value that is no dict
NoGet(t) == "AttributeError: '" \o t \o "' object has no attribute 'get'"

\* mutant: an unknown command is reported as needing confirmation
build_result_confirming_unknown(message, is_dry_run, intent, needs_confirmation) ==
    [message |-> [message EXCEPT !.dry_run_marker = is_dry_run],
     dry_run |-> is_dry_run,
     intent |-> intent,
     needs_confirmation |-> IF intent = "unknown" THEN ConfBool(TRUE)
                            ELSE needs_confirmation]

\* build_result (lines 484-489); needs_confirmation is the keyword argument,
\* absent when the call does not pass it
build_result(message, is_dry_run, intent, needs_confirmation) ==
    [message |-> [message EXCEPT !.dry_run_marker = is_dry_run],
     dry_run |-> is_dry_run,
     intent |-> intent,
     needs_confirmation |-> needs_confirmation]

NoResult == build_result(NoMessage, FALSE, "none", NoConf)

\* what process_command does after classification: it returns a result, or raises
Result(r) == [raised |-> FALSE, result |-> r, error |-> "none"]
Failure(e) == [raised |-> TRUE, result |-> NoResult, error |-> e]

\* mutant: the preview of a booking reads the spreadsheet as well
ReadsSheetForBooking(intent, params) ==
    /\ intent.t = "str"
    /\ \/ intent.name \in {"show_deadbeats", "book_court"}
       \/ intent.name = "show_balances" /\ params.t = "map"

\* the intents whose handler reads the spreadsheet
ReadsSheet(intent, params) ==
    /\ intent.t = "str"
    /\ \/ intent.name = "show_deadbeats"
       \/ intent.name = "show_balances" /\ params.t = "map"

\* a handler is called for the intent: params.get raises before the call of
\* handle_balances, handle_send_reminders_preview and handle_unknown when
\* params is no dict (lines 498, 512, 515)
HandlerCalled(intent, params) ==
    \/ intent.t = "str" /\ intent.name \in {"help", "show_deadbeats", "show_status",
                                            "book_court", "create_poll"}
    \/ params.t = "map"

\* mutant: the previews do not pass needs_confirmation
NeedsConfirmationOmitted == NoConf

\* the keyword argument needs_confirmation=True of the three previews
\* (lines 506, 509, 512)
NeedsConfirmation == ConfBool(TRUE)

\* lines 491-515: the dispatch on intent, in the order of the source
Dispatch(intent, params, cleaned_command, is_dry_run, config, players, now) ==
    LET name == IF intent.t = "str" THEN intent.name ELSE "none"
    IN  IF name = "help"
        THEN Result(build_result(handle_help, is_dry_run, "help", NoConf))
        ELSE IF name = "show_deadbeats"
        THEN Result(build_result(handle_deadbeats(players), is_dry_run,
                                 "show_deadbeats", NoConf))
        ELSE IF name = "show_balances"
        THEN IF params.t # "map" THEN Failure(NoGet(params.t))
             ELSE IF handle_balances(params.player_name, players).raised
             THEN Failure(handle_balances(params.player_name, players).error)
             ELSE Result(build_result(handle_balances(params.player_name, players).msg,
                                      is_dry_run, "show_balances", NoConf))
        ELSE IF name = "show_status"
        THEN Result(build_result(handle_status(config, now), is_dry_run,
                                 "show_status", NoConf))
        ELSE IF name = "book_court"
        THEN IF params.t # "map" THEN Failure(NoGet(params.t))
             ELSE Result(build_result(handle_book_court_preview(params), is_dry_run,
                                      "book_court", NeedsConfirmation))
        ELSE IF name = "create_poll"
        THEN Result(build_result(handle_create_poll_preview, is_dry_run,
                                 "create_poll", NeedsConfirmation))
        ELSE IF name = "send_reminders"
        THEN IF params.t # "map" THEN Failure(NoGet(params.t))
             ELSE Result(build_result(
                      handle_send_reminders_preview(GetOr(params.type, JStr(W_vote))),
                      is_dry_run, "send_reminders", NeedsConfirmation))
        ELSE IF params.t # "map" THEN Failure(NoGet(params.t))
             ELSE Result(build_result(
                      handle_unknown(GetOr(params.raw, JStr(cleaned_command))),
                      is_dry_run, "unknown", NoConf))

---------------------------------------------------------------------------
(* Inputs: configurations, requests and the collaborators' answers         *)

\* the module configuration (lines 44-53): the admin group id, and for every
\* other setting whether it is non-empty
Config(admin_group, anthropic_key, greenapi_instance, greenapi_token, github_token, spreadsheet_id) ==
    [admin_group |-> admin_group, anthropic_key |-> anthropic_key,
     greenapi_instance |-> greenapi_instance, greenapi_token |-> greenapi_token,
     github_token |-> github_token, spreadsheet_id |-> spreadsheet_id]

AdminGroup == "admin@g.us"
OtherGroup == "other@g.us"

Configs ==
    {Config(AdminGroup, TRUE, TRUE, TRUE, TRUE, TRUE),
     Config(AdminGroup, FALSE, TRUE, TRUE, FALSE, TRUE),
     Config(AdminGroup, TRUE, FALSE, FALSE, TRUE, TRUE),
     Config(AdminGroup, FALSE, TRUE, FALSE, FALSE, TRUE),
     Config("", TRUE, TRUE, TRUE, FALSE, TRUE),
     Config("", FALSE, FALSE, FALSE, FALSE, FALSE)}

T_help == <<"/", "p", "b", " ", "h", "e", "l", "p">>
T_deadbeats == <<"/", "p", "b", " ", "d", "e", "a", "d", "b", "e", "a", "t", "s">>
T_balance_ali == <<"/", "p", "b", " ", "b", "a", "l", "a", "n", "c", "e", " ", "a", "l", "i">>
T_balance == <<"/", "p", "b", " ", "b", "a", "l", "a", "n", "c", "e">>
T_book == <<"/", "p", "b", " ", "b", "o", "o", "k", " ", "2", "/", "4", " ", "7", "p", "m", " ", "2", "h", "r", "s">>
T_poll_create == <<"/", "p", "b", " ", "p", "o", "l", "l", " ", "c", "r", "e", "a", "t", "e">>
T_status == <<"/", "p", "b", " ", "s", "t", "a", "t", "u", "s">>
T_book_dry_run == <<"/", "p", "b", " ", "b", "o", "o", "k", " ", "2", "/", "4", " ", "7", "p", "m", " ", "2", "h", "r", "s", " ", "-", "-", "d", "r", "y", "-", "r", "u", "n">>
T_reminders == <<"/", "p", "b", " ", "r", "e", "m", "i", "n", "d", "e", "r", "s">>
T_upper_help_n == <<"/", "P", "B", " ", "H", "e", "l", "p", " ", "-", "n">>
T_who_owes == <<"/", "p", "i", "c", "k", "l", "e", "b", "o", "t", " ", "w", "h", "o", " ", "o", "w", "e", "s", " ", "m", "o", "n", "e", "y", "?">>
T_only_flag == <<"/", "p", "b", " ", "-", "-", "d", "r", "y", "-", "r", "u", "n">>
T_only_prefix == <<"/", "p", "b", " ">>
T_bare_help == <<"h", "e", "l", "p">>
T_book_reminder == <<"/", "p", "b", " ", "b", "o", "o", "k", " ", "r", "e", "m", "i", "n", "d", "e", "r", " ", "d", "r", "y", " ", "r", "u", "n">>
T_balance_poll == <<"/", "p", "b", " ", "b", "a", "l", "a", "n", "c", "e", " ", "p", "o", "l", "l", " ", "c", "r", "e", "a", "t", "e">>
T_chat == <<"h", "e", "l", "l", "o", " ", "e", "v", "e", "r", "y", "o", "n", "e">>
T_run_now == <<"/", "p", "b", " ", "s", "t", "a", "t", "u", "s", " ", "r", "u", "n", "-", "n", "o", "w">>

\* the command texts of the requests: the commands of the module's docstring and
\* test block (lines 7-14, 611-618) and variations of them
CommandTexts ==
    {T_help, T_deadbeats, T_balance_ali, T_balance, T_book, T_poll_create,
     T_status, T_book_dry_run, T_reminders, T_upper_help_n, T_who_owes,
     T_only_flag, T_only_prefix, T_bare_help, T_book_reminder, T_balance_poll,
     T_chat, T_run_now}

\* An HTTP request (lines 526-583): the method and the JSON body, which is
\*   "none"   missing or no valid JSON (get_json(silent=True) returns None)
\*   "empty"  an empty object
\*   "list"   valid JSON that is no object
\*   "routed" an object with 'command'; has_chat tells whether it has 'chatId'
\*   "raw"    the gateway's payload: senderData.chatId, messageData.typeMessage
\*            and messageData.textMessageData.textMessage
Request(method, body, text, has_chat, chat, dry_run, type_message) ==
    [method |-> method, body |-> body, text |-> text, has_chat |-> has_chat,
     chat |-> chat, dry_run |-> dry_run, type_message |-> type_message]

NoRequest == Request("none", "none", <<>>, FALSE, "", FALSE, "")

\* the texts that are combined with every chat id and both dry_run overrides
ProbeTexts == {T_help, T_book, T_only_flag}

Requests ==
    {Request(m, "none", <<>>, FALSE, "", FALSE, "") : m \in {"OPTIONS", "GET", "POST"}}
    \cup {Request("POST", b, <<>>, FALSE, "", FALSE, "") : b \in {"empty", "list"}}
    \cup {Request("POST", "routed", t, FALSE, "", d, "") :
             t \in CommandTexts, d \in BOOLEAN}
    \cup {Request("POST", "routed", t, TRUE, c, d, "") :
             t \in ProbeTexts, c \in {AdminGroup, OtherGroup}, d \in BOOLEAN}
    \cup {Request("POST", "raw", t, TRUE, c, FALSE, "textMessage") :
             t \in CommandTexts, c \in {"", AdminGroup, OtherGroup}}
    \cup {Request("POST", "raw", t, TRUE, c, TRUE, "textMessage") :
             t \in ProbeTexts, c \in {"", AdminGroup, OtherGroup}}
    \cup {Request("POST", "raw", T_help, TRUE, c, FALSE, "imageMessage") :
             c \in {AdminGroup, OtherGroup}}

V_ali == <<"a", "l", "i">>
V_zed == <<"z", "e", "d">>
V_date == <<"2", "/", "4">>
V_time == <<"7", "p", "m">>
V_payment == <<"p", "a", "y", "m", "e", "n", "t">>
V_north == <<"n", "o", "r", "t", "h">>
V_what == <<"w", "h", "a", "t", "?">>

\* JSON values the service may answer with: the objects its instructions ask
\* for (lines 160-164), with flags that agree and that disagree with them,
\* objects lacking keys, a params that is no mapping, intents outside the
\* list, and values that are no object
IntentValues ==
    {IntentObj(IntentName("help"), EmptyParams, ConfBool(FALSE)),
     IntentObj(IntentName("help"), NoParams, ConfBool(TRUE)),
     IntentObj(IntentName("show_deadbeats"), NoParams, NoConf),
     IntentObj(IntentName("show_balances"),
               [EmptyParams EXCEPT !.player_name = JStr(V_ali)], ConfBool(FALSE)),
     IntentObj(IntentName("show_balances"),
               [EmptyParams EXCEPT !.player_name = JStr(V_zed)], ConfBool(FALSE)),
     IntentObj(IntentName("show_balances"),
               [EmptyParams EXCEPT !.player_name = JNull], ConfBool(TRUE)),
     IntentObj(IntentName("show_balances"),
               [EmptyParams EXCEPT !.player_name = JNum(<<"5">>)], ConfBool(FALSE)),
     IntentObj(IntentName("show_balances"), ParamsNotMap("NoneType"), ConfBool(FALSE)),
     IntentObj(IntentName("show_status"), EmptyParams, ConfBool(FALSE)),
     IntentObj(IntentName("book_court"),
               [EmptyParams EXCEPT !.date = JStr(V_date), !.time = JStr(V_time),
                                   !.duration_minutes = JNum(<<"9", "0">>),
                                   !.court = JStr(V_north)], ConfBool(TRUE)),
     IntentObj(IntentName("book_court"),
               [EmptyParams EXCEPT !.date = JStr(V_date), !.time = JNull],
               ConfBool(FALSE)),
     IntentObj(IntentName("book_court"), ParamsNotMap("str"), ConfBool(TRUE)),
     IntentObj(IntentName("create_poll"), EmptyParams, NoConf),
     IntentObj(IntentName("create_poll"), ParamsNotMap("list"), ConfBool(FALSE)),
     IntentObj(IntentName("send_reminders"),
               [EmptyParams EXCEPT !.type = JStr(V_payment)], ConfBool(TRUE)),
     IntentObj(IntentName("send_reminders"), NoParams, ConfBool(FALSE)),
     IntentObj(IntentName("unknown"),
               [EmptyParams EXCEPT !.raw = JStr(V_what)], ConfBool(FALSE)),
     IntentObj(IntentName("unknown"), EmptyParams, ConfBool(TRUE)),
     IntentObj(IntentName("delete_everything"), EmptyParams, ConfBool(TRUE)),
     IntentObj(IntentNull, NoParams, ConfBool(TRUE)),
     IntentObj(IntentNum, ParamsNotMap("list"), NoConf),
     NotObj("list"), NotObj("str"), NotObj("int"), NotObj("NoneType")}

Fence == Tok("fence")

\* the texts of the service's answer: the bare JSON value, the value in a code
\* fence, with whitespace or with other text around it, and no text at all
ReplyTexts ==
    {<<JTok(v)>> : v \in IntentValues}
    \cup {<<Fence, Tok("word"), Tok("nl"), JTok(v), Tok("nl"), Fence>> : v \in
             {IntentObj(IntentName("help"), EmptyParams, ConfBool(FALSE)),
              IntentObj(IntentName("create_poll"), EmptyParams, NoConf),
              NotObj("list")}}
    \cup {<<Tok("nl"), Fence, Tok("nl"), JTok(NotObj("NoneType")), Fence, Tok("sp")>>,
          <<Fence, JTok(NotObj("int")), Tok("nl"), Fence>>,
          <<Fence, Tok("word"), Tok("nl"),
            JTok(IntentObj(IntentName("show_status"), EmptyParams, ConfBool(TRUE)))>>,
          <<Tok("sp"), JTok(IntentObj(IntentName("show_deadbeats"), NoParams, NoConf)),
            Tok("nl")>>,
          <<Tok("other"), Tok("nl"),
            JTok(IntentObj(IntentName("help"), EmptyParams, ConfBool(FALSE)))>>,
          <<JTok(IntentObj(IntentName("help"), EmptyParams, ConfBool(FALSE))),
            Tok("nl"), Fence>>,
          <<Tok("other")>>,
          <<>>}

\* the outcomes of the call to the service
LLMReplies ==
    {LLMReply("raise", 0, "empty", "absent", "notdict", "absent", <<>>),
     LLMReply("http", 500, "notjson", "absent", "notdict", "absent", <<>>),
     LLMReply("http", 429, "obj", "absent", "notdict", "absent", <<>>),
     LLMReply("http", 200, "empty", "absent", "notdict", "absent", <<>>),
     LLMReply("http", 200, "notjson", "absent", "notdict", "absent", <<>>),
     LLMReply("http", 200, "list", "absent", "notdict", "absent", <<>>),
     LLMReply("http", 200, "obj", "absent", "notdict", "absent", <<>>),
     LLMReply("http", 200, "obj", "null", "notdict", "absent", <<>>),
     LLMReply("http", 200, "obj", "empty_list", "notdict", "absent", <<>>),
     LLMReply("http", 200, "obj", "list", "notdict", "absent", <<>>),
     LLMReply("http", 200, "obj", "list", "dict", "absent", <<>>),
     LLMReply("http", 200, "obj", "list", "dict", "null", <<>>)}
    \cup {LLMReply("http", 200, "obj", "list", "dict", "str", q) : q \in ReplyTexts}

N_alice == <<"A", "l", "i", "c", "e">>
N_alicia == <<"A", "l", "i", "c", "i", "a">>
N_bob == <<"B", "o", "b">>
N_cara == <<"C", "a", "r", "a">>
N_smith == <<"S", "m", "i", "t", "h">>

Sheet(kind, rows) == [kind |-> kind, rows |-> rows]
NoSheet == Sheet("none", <<>>)

\* the outcomes of the spreadsheet read
SheetOutcomes ==
    {Sheet("no_service", <<>>),
     Sheet("raise", <<>>),
     Sheet("ok", <<>>),
     Sheet("ok", <<Row(8, N_alice, <<>>, "number", 2500),
                   Row(8, N_bob, <<>>, "number", -500),
                   Row(8, N_cara, <<>>, "number", 0)>>),
     Sheet("ok", <<Row(8, N_bob, N_smith, "number", 1000),
                   Row(3, N_cara, N_smith, "number", 700),
                   Row(9, <<>>, N_smith, "number", 4000),
                   Row(8, N_alicia, N_smith, "text", 0),
                   Row(8, N_alice, N_smith, "number", 1000),
                   Row(8, N_cara, <<>>, "blank", 0)>>),
     Sheet("ok", <<Row(8, N_alice, <<>>, "number", 2500),
                   Row(8, N_bob, <<>>, "notstr", 0)>>)}

\* mutant: the call to the messaging service never returns
SendOutcomesNever == {}

\* the outcomes of the call to the messaging service (lines 118-132): status
\* 200, another status, an exception
SendOutcomes == {"ok", "http_error", "raise"}

\* the readings of the clock (line 387)
Clock == {"02/04/26 07:00 PM PST", "02/05/26 08:30 AM PST"}

---------------------------------------------------------------------------
(* picklebot_webhook (lines 518-605)                                       *)

\* the (body, status) pair the entry point returns
Response(status, kind) ==
    [status |-> status, kind |-> kind, reason |-> "none", intent |-> "none",
     needs_confirmation |-> FALSE, dry_run |-> FALSE,
     response_message |-> NoMessage, error |-> "none"]

NoResponse == Response(0, "none")

Ignored(reason) == [Response(200, "ignored") EXCEPT !.reason = reason]

\* lines 603-605: the body is {'error': str(e)}
InternalError(e) == [Response(500, "error") EXCEPT !.error = e]

Command(command_text, chat_id, dry_run) ==
    [command_text |-> command_text, chat_id |-> chat_id, dry_run |-> dry_run]

NoCommand == Command(<<>>, "", FALSE)

\* lines 574-578
IsCommand(text) ==
    \E i \in 1..Len(COMMAND_PREFIXES) : StartsWith(Lower(text), Lower(COMMAND_PREFIXES[i]))

\* lines 526-583: the request is answered at once (respond), or a command is
\* handed to process_command
Answer(r) == [respond |-> TRUE, resp |-> r, cmd |-> NoCommand]
Process(c) == [respond |-> FALSE, resp |-> NoResponse, cmd |-> c]

\* mutant: only an empty object counts as no payload
NoPayloadEmptyOnly(body) == body = "empty"

\* lines 539-540: `not data` - get_json(silent=True) gave None, or the body is
\* an empty object
NoPayload(body) == body \in {"none", "empty"}

Intake(config, r) ==
    IF r.method = "OPTIONS" THEN Answer(Response(204, "preflight"))
    ELSE IF r.method # "POST" THEN Answer(Response(405, "method_not_allowed"))
    ELSE IF NoPayload(r.body) THEN Answer(Response(400, "no_json"))
    ELSE IF r.body = "list" THEN Answer(InternalError(NoGet("list")))
    ELSE IF r.body = "routed"
    THEN Process(Command(r.text, IF r.has_chat THEN r.chat ELSE config.admin_group,
                         r.dry_run))
    ELSE IF config.admin_group # "" /\ r.chat # config.admin_group
    THEN Answer(Ignored("not_admin_group"))
    ELSE IF r.type_message # "textMessage" THEN Answer(Ignored("not_text_message"))
    ELSE IF ~IsCommand(r.text) THEN Answer(Ignored("not_command"))
    ELSE Process(Command(r.text, r.chat, r.dry_run))

\* mutant: send_whatsapp_message does not look at dry_run
SendAttemptedInDryRun(dry_run, config) ==
    config.greenapi_instance /\ config.greenapi_token

\* send_whatsapp_message (lines 108-114): the request to the messaging
\* service is made
SendAttempted(dry_run, config) ==
    ~dry_run /\ config.greenapi_instance /\ config.greenapi_token

\* line 593: chat_id or ADMIN_DINKERS_GROUP_ID
SendTarget(chat_id, config) == IF chat_id # "" THEN chat_id ELSE config.admin_group

\* line 589: result.get('dry_run', dry_run)
ReportedDryRun(res) == res.dry_run

\* mutant: a result without needs_confirmation is reported as needing confirmation
ReportedConfirmationDefaultTrue(res) ==
    IF res.needs_confirmation.t = "absent" THEN TRUE ELSE res.needs_confirmation.b

\* line 598: result.get('needs_confirmation', False)
ReportedConfirmation(res) ==
    IF res.needs_confirmation.t = "absent" THEN FALSE ELSE res.needs_confirmation.b

\* mutant: the message is returned to the caller in every response
ProcessedWithMessage(res) ==
    [Response(200, "processed") EXCEPT
        !.intent = res.intent,
        !.needs_confirmation = ReportedConfirmation(res),
        !.dry_run = ReportedDryRun(res),
        !.response_message = res.message]

\* lines 595-601
Processed(res) ==
    [Response(200, "processed") EXCEPT
        !.intent = res.intent,
        !.needs_confirmation = ReportedConfirmation(res),
        !.dry_run = ReportedDryRun(res),
        !.response_message = IF ReportedDryRun(res) THEN res.message ELSE NoMessage]

\* mutant: a send that fails is answered with a 500
AnswerAfterSendOrError(res, outcome) ==
    IF outcome \in {"http_error", "raise"}
    THEN InternalError("send failed")
    ELSE Processed(res)

\* lines 592-602: the value send_whatsapp_message returns (True, or False when
\* the credentials are missing or the call failed) is not looked at; the
\* request is answered 'processed' whatever the outcome of the send
AnswerAfterSend(res, outcome) == Processed(res)

\* the locals of process_command after classification (lines 467-479)
Locals(cleaned_command, text_has_dry_run, is_dry_run, intent_data) ==
    [cleaned_command |-> cleaned_command, text_has_dry_run |-> text_has_dry_run,
     is_dry_run |-> is_dry_run, intent_data |-> intent_data]

NoLocals == Locals(<<>>, FALSE, FALSE, NotObj("none"))

\* mutant: a call that is made is made again
CalledTwice(n, made) == IF made THEN n + 2 ELSE n

\* One more call is counted when the statement that makes it is reached: each
\* of requests.post (lines 119, 168), the spreadsheet get (line 267),
\* parse_intent_with_claude (line 476) and the handlers (lines 492-515) stands
\* in straight-line code, outside every loop.
Called(n, made) == IF made THEN n + 1 ELSE n

\* The external calls of one request: how many calls to the natural-language
\* service, spreadsheet reads and calls to the messaging service were made,
\* what the service was asked (the command in the prompt, line 143) and
\* answered, what the sheet gave, what was sent where and how that ended; and
\* how many classifications and handler executions took place.
NoCalls ==
    [llm_calls |-> 0, prompt |-> <<>>, llm |-> NoReply,
     sheet_reads |-> 0, sheet |-> NoSheet,
     sends |-> 0, sent_to |-> "", sent |-> NoMessage, send_outcome |-> "none",
     classifications |-> 0, handler_runs |-> 0]

NoText ==
    [stage |-> "none", text |-> <<>>, out |-> [text |-> <<>>, dry |-> FALSE],
     again |-> [text |-> <<>>, dry |-> FALSE], intent |-> NotObj("none")]

Init ==
    /\ cfg \in Configs
    /\ pc = "idle"
    /\ req = NoRequest
    /\ cmd = NoCommand
    /\ pcs = NoLocals
    /\ result = NoResult
    /\ net = NoCalls
    /\ resp = NoResponse
    /\ tx = NoText

\* A request arrives and lines 526-583 run: it is answered, or its command
\* goes to process_command.
Receive ==
    /\ pc = "idle"
    /\ \E r \in Requests :
          /\ req' = r
          /\ IF Intake(cfg, r).respond
             THEN /\ resp' = Intake(cfg, r).resp
                  /\ cmd' = NoCommand
                  /\ pc' = "done"
             ELSE /\ resp' = NoResponse
                  /\ cmd' = Intake(cfg, r).cmd
                  /\ pc' = "classify"
    /\ UNCHANGED <<cfg, pcs, result, net, tx>>

\* process_command, lines 466-479: the dry-run flag is extracted and the
\* command classified; reading the classifier's answer raises when it is no dict.
Classify ==
    /\ pc = "classify"
    /\ \E reply \in (IF cfg.anthropic_key THEN LLMReplies ELSE {NoReply}) :
          LET cleaned == extract_dry_run_flag(cmd.command_text)
              intent_data == parse_intent_with_claude(cleaned.text, cfg.anthropic_key, reply)
          IN  /\ pcs' = Locals(cleaned.text, cleaned.dry,
                               EffectiveDryRun(cmd.dry_run, cleaned.dry), intent_data)
              /\ net' = [net EXCEPT !.llm_calls = Called(net.llm_calls, cfg.anthropic_key),
                                    !.prompt = IF cfg.anthropic_key THEN cleaned.text ELSE <<>>,
                                    !.llm = reply,
                                    !.classifications = Called(net.classifications, TRUE)]
              /\ IF intent_data.t = "obj"
                 THEN /\ pc' = "handle"
                      /\ resp' = resp
                 ELSE /\ pc' = "done"
                      /\ resp' = InternalError(NoGet(intent_data.t))
    /\ UNCHANGED <<cfg, req, cmd, result, tx>>

\* process_command, lines 491-515: the handler of the intent runs and the
\* result is built; an exception goes to the handler of line 603.
Handle ==
    /\ pc = "handle"
    /\ LET intent == IntentOf(pcs.intent_data)
           params == ParamsOf(pcs.intent_data)
       IN  \E sheet \in (IF ReadsSheet(intent, params) THEN SheetOutcomes ELSE {NoSheet}),
              now \in (IF intent = IntentName("show_status") THEN Clock ELSE {"none"}) :
              LET out == Dispatch(intent, params, pcs.cleaned_command, pcs.is_dry_run,
                                  cfg, get_player_balances(sheet), now)
              IN  /\ net' = [net EXCEPT
                             !.sheet_reads = Called(net.sheet_reads, ReadsSheet(intent, params)),
                             !.sheet = sheet,
                             !.handler_runs = Called(net.handler_runs,
                                                     HandlerCalled(intent, params))]
                  /\ IF out.raised
                     THEN /\ pc' = "done"
                          /\ result' = result
                          /\ resp' = InternalError(out.error)
                     ELSE /\ pc' = "deliver"
                          /\ result' = out.result
                          /\ resp' = resp
    /\ UNCHANGED <<cfg, req, cmd, pcs, tx>>

\* lines 588-601: the message is sent to the group, unless this is a dry run
\* or the credentials are missing, and the request is answered.
Deliver ==
    /\ pc = "deliver"
    /\ \E outcome \in (IF SendAttempted(ReportedDryRun(result), cfg)
                       THEN SendOutcomes ELSE {"none"}) :
          /\ net' = [net EXCEPT
                     !.sends = Called(net.sends, SendAttempted(ReportedDryRun(result), cfg)),
                     !.sent_to = IF SendAttempted(ReportedDryRun(result), cfg)
                                 THEN SendTarget(cmd.chat_id, cfg) ELSE "",
                     !.sent = IF SendAttempted(ReportedDryRun(result), cfg)
                              THEN result.message ELSE NoMessage,
                     !.send_outcome = outcome]
          /\ resp' = AnswerAfterSend(result, outcome)
    /\ pc' = "done"
    /\ UNCHANGED <<cfg, req, cmd, pcs, result, tx>>

\* mutant: the record of the calls is kept in a module-level object that
\* outlives the request
ReturnKeepingCalls ==
    /\ pc = "done"
    /\ pc' = "idle"
    /\ req' = NoRequest
    /\ cmd' = NoCommand
    /\ pcs' = NoLocals
    /\ result' = NoResult
    /\ resp' = NoResponse
    /\ UNCHANGED <<cfg, net, tx>>

\* The entry point returns: the response goes to the caller and the locals of
\* the request are gone.
Return ==
    /\ pc = "done"
    /\ pc' = "idle"
    /\ req' = NoRequest
    /\ cmd' = NoCommand
    /\ pcs' = NoLocals
    /\ result' = NoResult
    /\ net' = NoCalls
    /\ resp' = NoResponse
    /\ UNCHANGED <<cfg, tx>>

Next == Receive \/ Classify \/ Handle \/ Deliver \/ Return

Spec == Init /\ [][Next]_vars

---------------------------------------------------------------------------
(* The text functions on their own: the Normalizer and the fallback        *)
(* classifier applied to every text put together from a few pieces         *)

\* the number of pieces a text is put together from
MaxPieces == 3

\* pieces of dry-run flags
FlagPieces ==
    {<<"-">>, <<"n">>, <<"N">>, <<" ">>, <<"\t">>, F_n, F_dry_long,
     <<"-", "r", "u", "n">>, <<"d", "r", "y">>, <<"R", "u", "n">>}

\* pieces of commands
CommandPieces ==
    {P_pb, W_book, W_balance, W_poll, W_create, W_reminder, W_help, W_status,
     <<" ">>, <<"s">>, F_n}

RECURSIVE Concats(_, _)
Concats(pieces, k) ==
    IF k = 0 THEN {<<>>}
    ELSE Concats(pieces, k - 1)
         \cup {a \o b : a \in Concats(pieces, k - 1), b \in pieces}

Texts == Concats(FlagPieces, MaxPieces) \cup Concats(CommandPieces, MaxPieces)

InitText ==
    /\ cfg = Config("", FALSE, FALSE, FALSE, FALSE, FALSE)
    /\ pc = "text"
    /\ req = NoRequest
    /\ cmd = NoCommand
    /\ pcs = NoLocals
    /\ result = NoResult
    /\ net = NoCalls
    /\ resp = NoResponse
    /\ tx \in {[NoText EXCEPT !.stage = "input", !.text = t] : t \in Texts}

\* extract_dry_run_flag is applied to the text
Normalize ==
    /\ tx.stage = "input"
    /\ tx' = [tx EXCEPT !.stage = "normalized", !.out = extract_dry_run_flag(tx.text)]
    /\ UNCHANGED <<cfg, pc, req, cmd, pcs, result, net, resp>>

\* extract_dry_run_flag is applied to the text it returned
NormalizeAgain ==
    /\ tx.stage = "normalized"
    /\ tx' = [tx EXCEPT !.stage = "renormalized",
                        !.again = extract_dry_run_flag(tx.out.text)]
    /\ UNCHANGED <<cfg, pc, req, cmd, pcs, result, net, resp>>

\* parse_intent_fallback is applied to the cleaned command, as
\* parse_intent_with_claude applies it (lines 139, 193, 197)
ClassifyFallback ==
    /\ tx.stage = "normalized"
    /\ tx' = [tx EXCEPT !.stage = "classified",
                        !.intent = parse_intent_fallback(tx.out.text)]
    /\ UNCHANGED <<cfg, pc, req, cmd, pcs, result, net, resp>>

NextText == Normalize \/ NormalizeAgain \/ ClassifyFallback

SpecText == InitText /\ [][NextText]_vars

---------------------------------------------------------------------------
(* Properties of the request pipeline (specification Spec)                 *)

\* process_command has classified the command of the current request
Classified == net.classifications = 1

\* the classification came from the natural-language service: the key is set
\* and the call gave a JSON value
FromService == Classified /\ cfg.anthropic_key /\ ~CallFailed(net.llm)

\* the classification came from the fallback
FromFallback == Classified /\ ~FromService

\* the fixed mapping from intent to confirmation (lines 163-164)
ConfirmationOf(name) == name \in ActionIntents

\* the branch process_command takes for an intent (lines 492-515)
DispatchedIntent(intent) ==
    IF intent.t = "str" /\ intent.name \in Intents THEN intent.name ELSE "unknown"

\* the command text has one of the DRY_RUN_FLAGS in it, in any case
HasDryRunToken(text) ==
    \E i \in 1..Len(DRY_RUN_FLAGS) : Contains(Lower(text), DRY_RUN_FLAGS[i])

\* the request has been answered 200 'processed'
AnsweredProcessed == pc = "done" /\ resp.kind = "processed"

\* C1, as stated: whenever a command has been classified, the IntentResult
\* has confirmation_required = true exactly when its intent is book_court,
\* create_poll or send_reminders, whatever flag the service reported.
C1_FlagFollowsIntent ==
    (Classified /\ pcs.intent_data.t = "obj") =>
        pcs.intent_data.conf =
            ConfBool(ConfirmationOf(DispatchedIntent(IntentOf(pcs.intent_data))))

\* C1, amended: the IntentResult of the fallback has the flag of the fixed
\* mapping; the IntentResult of the service carries the flag the service
\* reported, unchanged, and process_command does not use it: the
\* needs_confirmation of the result it builds is that of the fixed mapping for
\* the dispatched intent.
C1_MappingAppliedAtDispatch ==
    /\ FromFallback =>
          /\ pcs.intent_data.t = "obj"
          /\ pcs.intent_data.conf =
                ConfBool(ConfirmationOf(pcs.intent_data.intent.name))
    /\ (FromService /\ net.llm.text = "str") =>
          pcs.intent_data.conf = JsonLoads(CleanMarkdown(net.llm.toks)).val.conf
    /\ (Classified /\ result # NoResult) =>
          /\ result.intent = DispatchedIntent(IntentOf(pcs.intent_data))
          /\ (result.needs_confirmation = ConfBool(TRUE)) = ConfirmationOf(result.intent)
          /\ (result.needs_confirmation = NoConf) = ~ConfirmationOf(result.intent)

\* C1: the service said book_court needs no confirmation and the result needs it
C1_Witness ==
    /\ FromService
    /\ pcs.intent_data.intent = IntentName("book_court")
    /\ pcs.intent_data.conf = ConfBool(FALSE)
    /\ result.needs_confirmation = ConfBool(TRUE)

\* C2: in every 'processed' response needs_confirmation is true when the
\* dispatched intent is book_court, create_poll or send_reminders and false
\* when it is help, show_deadbeats, show_balances, show_status or unknown.
C2_ConfirmationByIntent ==
    AnsweredProcessed =>
        /\ resp.intent = DispatchedIntent(IntentOf(pcs.intent_data))
        /\ resp.intent \in ActionIntents => resp.needs_confirmation
        /\ resp.intent \in ReadOnlyIntents \cup {"unknown"} => ~resp.needs_confirmation

\* C2: the service asked for confirmation of help, and none is reported
C2_Witness ==
    /\ AnsweredProcessed
    /\ FromService
    /\ pcs.intent_data.conf = ConfBool(TRUE)
    /\ resp.intent = "help"
    /\ ~resp.needs_confirmation

\* C3: a request whose dry_run override is set or whose text has a dry-run
\* token makes no call to the messaging service, whatever its intent, and its
\* message is computed all the same; "/pb book 2/4 7pm 2hrs --dry-run" is
\* reported as a dry run, sends nothing, and is book_court with confirmation
\* when the fallback classifies it.
C3_DryRunSendsNothing ==
    /\ (cmd.dry_run \/ HasDryRunToken(cmd.command_text)) =>
          /\ net.sends = 0
          /\ net.sent = NoMessage
          /\ AnsweredProcessed =>
                /\ resp.dry_run
                /\ resp.response_message # NoMessage
                /\ resp.response_message.dry_run_marker
    /\ (AnsweredProcessed /\ cmd.command_text = T_book_dry_run) =>
          /\ resp.dry_run
          /\ net.sends = 0
          /\ FromFallback => (resp.intent = "book_court" /\ resp.needs_confirmation)

\* C3: the dry-run booking command answered, with the messaging service configured
C3_Witness ==
    /\ AnsweredProcessed
    /\ cmd.command_text = T_book_dry_run
    /\ ~cmd.dry_run
    /\ cfg.greenapi_instance /\ cfg.greenapi_token
    /\ resp.intent = "book_court"
    /\ resp.needs_confirmation
    /\ net.sends = 0

\* C4: the dry_run of a 'processed' response is the request's override OR the
\* presence of a dry-run token in the command text.
C4_EffectiveDryRun ==
    AnsweredProcessed => (resp.dry_run = (req.dry_run \/ HasDryRunToken(req.text)))

\* C4: the override is false and the token in the text makes it a dry run
C4_Witness ==
    /\ AnsweredProcessed
    /\ ~req.dry_run
    /\ HasDryRunToken(req.text)
    /\ resp.dry_run

\* the call to the service failed: no API key, an exception or timeout of the
\* request, a status other than 200, an empty body or one that is no JSON, a
\* JSON body without the text of an answer, a text that is no JSON value
ServiceCallFailed ==
    \/ ~cfg.anthropic_key
    \/ net.llm.kind = "raise"
    \/ net.llm.status # 200
    \/ net.llm.body \in {"empty", "notjson", "list"}
    \/ net.llm.content \in {"null", "empty_list"}
    \/ net.llm.content = "list" /\ net.llm.first = "notdict"
    \/ net.llm.content = "list" /\ net.llm.first = "dict" /\ net.llm.text = "null"
    \/ /\ net.llm.content = "list" /\ net.llm.first = "dict" /\ net.llm.text = "str"
       /\ ~JsonLoads(CleanMarkdown(net.llm.toks)).ok

\* C5: when the call to the service fails, the classification is the one the
\* fallback gives for the same text, and process_command goes on to the
\* handler: no exception reaches it.
C5_FailureGivesFallback ==
    (Classified /\ ServiceCallFailed) =>
        /\ pcs.intent_data = parse_intent_fallback(pcs.cleaned_command)
        /\ pcs.intent_data.t = "obj"
        /\ ~(pc = "done" /\ net.handler_runs = 0)

\* C5: the service answered 429 to a booking command, and the fallback
\* classified it
C5_Witness ==
    /\ Classified
    /\ cfg.anthropic_key
    /\ net.llm.kind = "http"
    /\ net.llm.status = 429
    /\ pcs.intent_data.intent = IntentName("book_court")
    /\ pc = "handle"

\* C6: the classification is always a mapping whose intent is one of the eight
\* intents and whose params are a mapping, and processing the command does
\* not end in an internal failure.
C6_WellFormedIntentResult ==
    Classified =>
        /\ pcs.intent_data.t = "obj"
        /\ pcs.intent_data.intent.t = "str"
        /\ pcs.intent_data.intent.name \in Intents
        /\ pcs.intent_data.params.t = "map"
        /\ ~(pc = "done" /\ resp.kind = "error")

\* the text begins with a command prefix, with or without the blank that ends it
CarriesPrefix(text) ==
    \E i \in 1..Len(COMMAND_PREFIXES) :
        StartsWith(Lower(text), RStrip(COMMAND_PREFIXES[i]))

\* C9, as stated: the text of a command that begins with a command prefix is
\* handed to the classifier, and put in the prompt of the service, without
\* the prefix.
C9_PrefixStripped ==
    (Classified /\ IsCommand(cmd.command_text)) =>
        /\ ~IsCommand(pcs.cleaned_command)
        /\ ~IsCommand(net.prompt)

\* C9, amended: the text of a command that begins with a command prefix still
\* carries the prefix when it is handed to the classifier (at most the blank
\* after it is gone), and the prompt of the service holds that same text; the
\* prefix is removed only inside the fallback, which matches its rules against
\* its own lowercased and trimmed copy less one leading prefix.
C9_PrefixKeptUntilFallback ==
    (Classified /\ IsCommand(cmd.command_text)) =>
        /\ CarriesPrefix(pcs.cleaned_command)
        /\ cfg.anthropic_key => net.prompt = pcs.cleaned_command
        /\ (FromFallback /\ pcs.intent_data.params.raw.t = "str") =>
              LET copy == Strip(Lower(pcs.cleaned_command))
              IN  IF IsCommand(copy)
                  THEN \E i \in 1..Len(COMMAND_PREFIXES) :
                          /\ StartsWith(copy, COMMAND_PREFIXES[i])
                          /\ pcs.intent_data.params.raw.s =
                                Strip(Drop(copy, Len(COMMAND_PREFIXES[i])))
                  ELSE pcs.intent_data.params.raw.s = copy

\* C9: the service classified "/pb help" and was asked about the text with its prefix
C9_Witness ==
    /\ FromService
    /\ cmd.command_text = T_help
    /\ net.prompt = T_help
    /\ pcs.intent_data.intent = IntentName("help")

---------------------------------------------------------------------------
(* Properties of the text functions (specification SpecText)               *)

\* the first of the DRY_RUN_FLAGS, in the order of the list, that the text has
FirstToken(text) ==
    DRY_RUN_FLAGS[Min({i \in 1..Len(DRY_RUN_FLAGS) :
                          Contains(Lower(text), DRY_RUN_FLAGS[i])})]

\* equal apart from leading, trailing and repeated whitespace
SameModuloSpaces(a, b) == CollapseSpaces(Strip(a)) = CollapseSpaces(Strip(b))

\* C7: for a text with a dry-run token the Normalizer returns textDryRun = true
\* and a text in which that token no longer occurs; for a text with none it
\* returns textDryRun = false and the text unchanged apart from whitespace.
C7_TokenRemoved ==
    tx.stage # "input" =>
        IF HasDryRunToken(tx.text)
        THEN /\ tx.out.dry
             /\ ~Contains(Lower(tx.out.text), FirstToken(tx.text))
        ELSE /\ ~tx.out.dry
             /\ SameModuloSpaces(tx.out.text, tx.text)

\* C8: applying the Normalizer to the text it returned gives that text back.
C8_Idempotent ==
    tx.stage = "renormalized" => tx.again.text = tx.out.text

\* the text the fallback matches its rules against
Matched == StripPrefix(tx.out.text)

Rule1 == Matched \in {W_help, W_qmark, W_commands}
Rule2 == Matched \in {W_deadbeats, W_deadbeat, W_owes, W_outstanding}
Rule3 == StartsWith(Matched, W_balance)
Rule4 == StartsWith(Matched, W_book)
Rule5 == Contains(Matched, W_poll) /\ Contains(Matched, W_create)
Rule6 == Contains(Matched, W_reminder)
Rule7 == Matched \in {W_status, W_health}

\* C10: the fallback gives the outcome of the first rule that matches, in the
\* order help, show_deadbeats, show_balances, book_court (raw = the text),
\* create_poll, send_reminders (type vote), show_status, unknown (raw = the
\* text); the result is determined by the text alone.
C10_FirstMatchingRule ==
    tx.stage = "classified" =>
        /\ tx.intent.t = "obj"
        /\ tx.intent.intent.t = "str"
        /\ tx.intent.conf = ConfBool(ConfirmationOf(tx.intent.intent.name))
        /\ Rule1 => tx.intent.intent.name = "help"
        /\ (~Rule1 /\ Rule2) => tx.intent.intent.name = "show_deadbeats"
        /\ (~Rule1 /\ ~Rule2 /\ Rule3) => tx.intent.intent.name = "show_balances"
        /\ (~Rule1 /\ ~Rule2 /\ ~Rule3 /\ Rule4) =>
              /\ tx.intent.intent.name = "book_court"
              /\ tx.intent.params = [EmptyParams EXCEPT !.raw = JStr(Matched)]
        /\ (~Rule1 /\ ~Rule2 /\ ~Rule3 /\ ~Rule4 /\ Rule5) =>
              /\ tx.intent.intent.name = "create_poll"
              /\ tx.intent.params = EmptyParams
        /\ (~Rule1 /\ ~Rule2 /\ ~Rule3 /\ ~Rule4 /\ ~Rule5 /\ Rule6) =>
              /\ tx.intent.intent.name = "send_reminders"
              /\ tx.intent.params = [EmptyParams EXCEPT !.type = JStr(W_vote)]
        /\ (~Rule1 /\ ~Rule2 /\ ~Rule3 /\ ~Rule4 /\ ~Rule5 /\ ~Rule6 /\ Rule7) =>
              tx.intent.intent.name = "show_status"
        /\ (~Rule1 /\ ~Rule2 /\ ~Rule3 /\ ~Rule4 /\ ~Rule5 /\ ~Rule6 /\ ~Rule7) =>
              /\ tx.intent.intent.name = "unknown"
              /\ tx.intent.params = [EmptyParams EXCEPT !.raw = JStr(Matched)]
        /\ (Rule4 /\ Rule6) => tx.intent.intent.name = "book_court"
        /\ (Rule3 /\ Rule5) => tx.intent.intent.name = "show_balances"

\* C10: a text that begins with 'book' and has 'reminder' in it classified book_court
C10_Witness ==
    /\ tx.stage = "classified"
    /\ Rule4 /\ Rule6
    /\ tx.intent.intent.name = "book_court"

---------------------------------------------------------------------------
(* The entry point: admission, malformed requests and internal errors      *)

\* the command of the current request was handed to process_command
Accepted == pc \in {"classify", "handle", "deliver"} \/ net.classifications > 0

\* the current request was answered without a command being processed
Refused == pc = "done" /\ ~Accepted

\* C11: a request in the raw gateway form is processed only when its
\* typeMessage is 'textMessage', its chat id equals the configured admin group
\* and its text begins with a command prefix; every other raw request is
\* answered 200 'ignored' with no classification, handler or send.
C11_RawFormAdmission ==
    req.body = "raw" =>
        /\ Accepted => /\ req.type_message = "textMessage"
                       /\ req.chat = cfg.admin_group
                       /\ IsCommand(req.text)
        /\ Refused => /\ resp.status = 200
                      /\ resp.kind = "ignored"
                      /\ net = NoCalls

\* C12: a request, routed or raw, whose chat id is not the configured admin
\* group is answered 'ignored' or 4xx; no handler runs for it and nothing is
\* sent to the chat id it supplied.
C12_OtherGroupRefused ==
    (req.body \in {"routed", "raw"} /\ req.has_chat /\ req.chat # cfg.admin_group) =>
        /\ net.handler_runs = 0
        /\ net.sends = 0
        /\ pc = "done" => (resp.kind = "ignored" \/ resp.status \in 400..499)

\* C13: OPTIONS is answered with the preflight response, every other method
\* but POST with 405, and a POST without a JSON body with 400; none of the
\* three runs a classification, a handler or a send, and none is a 500.
C13_MalformedRequests ==
    pc = "done" =>
        /\ req.method = "OPTIONS" =>
              resp = Response(204, "preflight") /\ net = NoCalls /\ ~Accepted
        /\ req.method \notin {"OPTIONS", "POST"} =>
              resp = Response(405, "method_not_allowed") /\ net = NoCalls /\ ~Accepted
        /\ (req.method = "POST" /\ req.body = "none") =>
              resp = Response(400, "no_json") /\ net = NoCalls /\ ~Accepted

\* C13: a POST without a JSON body was answered 400
C13_Witness ==
    /\ pc = "done"
    /\ req.method = "POST"
    /\ req.body = "none"
    /\ resp.status = 400

\* the texts str(e) of the exceptions the pipeline raises
ExceptionTexts ==
    {"AttributeError: no attribute 'lower'"}
    \cup {NoGet(t) : t \in {"list", "str", "int", "bool", "NoneType"}}

\* C14: the body of a 500 response does not depend on the exception: had the
\* request failed with any other exception, the response would be the same.
C14_GenericErrorBody ==
    (pc = "done" /\ resp.status = 500) =>
        \A e \in ExceptionTexts : resp = InternalError(e)

---------------------------------------------------------------------------
(* The balance handlers on their own: show_deadbeats and show_balances      *)
(* applied to every sheet of a few rows                                     *)

\* the number of rows of a sheet, after the header
MaxRows == 3

\* the rows a sheet is made of: players who owe, have credit and are paid up,
\* two players with the same balance, and rows get_player_balances skips or
\* reads as 0 (too short, no first name, a balance that is no number)
SheetRows ==
    {Row(8, N_alice, <<>>, "number", 2500),
     Row(8, N_bob, <<>>, "number", -500),
     Row(8, N_cara, <<>>, "number", 0),
     Row(8, N_alicia, N_smith, "number", 2500),
     Row(8, N_bob, N_smith, "number", 1000),
     Row(3, N_cara, N_smith, "number", 700),
     Row(8, N_alice, N_smith, "text", 0),
     Row(9, <<>>, N_smith, "number", 4000),
     Row(8, N_cara, N_smith, "notstr", 0)}

Sheets ==
    {Sheet("no_service", <<>>), Sheet("raise", <<>>)}
    \cup {Sheet("ok", rows) : rows \in UNION {[1..n -> SheetRows] : n \in 0..MaxRows}}

\* the names searched for: in lower case, in capitals, and one nobody has
NameFilters ==
    {JStr(V_ali), JStr(<<"B", "o", "b">>), JStr(<<"S", "M", "I", "T", "H">>), JStr(V_zed)}

InitBalances ==
    /\ cfg = Config(AdminGroup, FALSE, TRUE, TRUE, FALSE, TRUE)
    /\ pc = "sheet"
    /\ req = NoRequest
    /\ cmd = NoCommand
    /\ pcs = NoLocals
    /\ result = NoResult
    /\ net \in {[NoCalls EXCEPT !.sheet = sheet] : sheet \in Sheets}
    /\ resp = NoResponse
    /\ tx = NoText

\* process_command dispatches a classified balance command (lines 494-498)
ShowResult(intent_data, sheet) ==
    Dispatch(IntentOf(intent_data), ParamsOf(intent_data), <<>>, FALSE,
             cfg, get_player_balances(sheet), "none").result

ShowDeadbeats ==
    /\ pc = "sheet"
    /\ pc' = "shown"
    /\ LET intent_data == IntentObj(IntentName("show_deadbeats"), EmptyParams, ConfBool(FALSE))
       IN  /\ pcs' = Locals(<<>>, FALSE, FALSE, intent_data)
           /\ result' = ShowResult(intent_data, net.sheet)
    /\ net' = [net EXCEPT !.sheet_reads = Called(net.sheet_reads, TRUE),
                          !.handler_runs = Called(net.handler_runs, TRUE)]
    /\ UNCHANGED <<cfg, req, cmd, resp, tx>>

ShowBalances ==
    /\ pc = "sheet"
    /\ pc' = "shown"
    /\ \E name \in NameFilters \cup {Absent} :
          LET intent_data == IntentObj(IntentName("show_balances"),
                                       [EmptyParams EXCEPT !.player_name = name],
                                       ConfBool(FALSE))
          IN  /\ pcs' = Locals(<<>>, FALSE, FALSE, intent_data)
              /\ result' = ShowResult(intent_data, net.sheet)
    /\ net' = [net EXCEPT !.sheet_reads = Called(net.sheet_reads, TRUE),
                          !.handler_runs = Called(net.handler_runs, TRUE)]
    /\ UNCHANGED <<cfg, req, cmd, resp, tx>>

NextBalances == ShowDeadbeats \/ ShowBalances

SpecBalances == InitBalances /\ [][NextBalances]_vars

---------------------------------------------------------------------------
(* Properties of the balance handlers                                      *)

\* the spreadsheet read of the current request failed: no service, the
\* request raised or timed out, or a cell broke the reading of the rows
SheetFailed ==
    /\ net.sheet_reads > 0
    /\ \/ net.sheet.kind \in {"no_service", "raise"}
       \/ \E i \in 1..Len(net.sheet.rows) :
             IsPlayerRow(net.sheet.rows[i]) /\ net.sheet.rows[i].bal.k = "notstr"

\* C15: when the reading of the balances fails, show_deadbeats and
\* show_balances still give the message they give for a sheet without players
\* and the request is answered 200 'processed'; a 500 after a read is the
\* failure of a name filter that is no string, never that of the read.
C15_SheetFailureHandled ==
    /\ (SheetFailed /\ pc \in {"deliver", "done"}) =>
          LET intent == IntentOf(pcs.intent_data)
              params == ParamsOf(pcs.intent_data)
              empty == Dispatch(intent, params, pcs.cleaned_command, pcs.is_dry_run,
                                cfg, <<>>, "none")
          IN  /\ ~empty.raised =>
                    /\ result = empty.result
                    /\ result.message.tpl \in {"no_outstanding", "all_balances", "not_found"}
                    /\ pc = "done" => resp.status = 200 /\ resp.kind = "processed"
              /\ empty.raised => params.player_name.t \notin {"str", "absent"}
    /\ (net.sheet_reads > 0 /\ pc = "done" /\ resp.status = 500) =>
          /\ ParamsOf(pcs.intent_data).player_name.t \notin {"str", "absent"}
          /\ resp.error = "AttributeError: no attribute 'lower'"

\* C15: show_deadbeats was answered 200 although a balance cell broke the read
C15_Witness ==
    /\ pc = "done"
    /\ SheetFailed
    /\ net.sheet.kind = "ok"
    /\ result.intent = "show_deadbeats"
    /\ resp.status = 200

\* the player snapshot the handlers work on
Snapshot == get_player_balances(net.sheet)

\* the handler of the named intent has answered
Shown(name) == pc = "shown" /\ result.intent = name

\* the name filter of the command
NameFilter == ParamsOf(pcs.intent_data).player_name

Count(q, x) == Cardinality({i \in 1..Len(q) : q[i] = x})

\* the two lists hold the same players, each as often
SameBag(a, b) ==
    /\ Len(a) = Len(b)
    /\ \A x \in Range(a) \cup Range(b) : Count(a, x) = Count(b, x)

Descending(q) == \A i \in 1..(Len(q) - 1) : q[i].cents >= q[i + 1].cents

RECURSIVE SumOf(_, _)
SumOf(q, n) == IF n = 0 THEN 0 ELSE q[n].cents + SumOf(q, n - 1)

\* the snapshot of the specification's example
ExampleSnapshot == <<Player(N_alice, 2500), Player(N_bob, -500), Player(N_cara, 0)>>

\* C16: show_deadbeats lists exactly the players with a balance > 0, in
\* descending order of balance, with the sum of the listed balances as total,
\* and gives the 'all paid up' message when nobody owes; for Alice 25.00,
\* Bob -5.00, Cara 0.00 it lists Alice alone with total 25.00.
C16_DeadbeatsListed ==
    Shown("show_deadbeats") =>
        LET owing == SelectSeq(Snapshot, LAMBDA p : p.cents > 0)
            m == result.message
        IN  /\ owing = <<>> => m.tpl = "no_outstanding" /\ m.rows = <<>>
            /\ owing # <<>> =>
                  /\ m.tpl = "outstanding"
                  /\ SameBag(m.rows, owing)
                  /\ Descending(m.rows)
                  /\ m.total = SumOf(m.rows, Len(m.rows))
            /\ Snapshot = ExampleSnapshot =>
                  m.rows = <<Player(N_alice, 2500)>> /\ m.total = 2500

\* C16: show_deadbeats answered for the example's snapshot
C16_Witness ==
    /\ Shown("show_deadbeats")
    /\ Snapshot = ExampleSnapshot
    /\ result.message.tpl = "outstanding"

\* C17: show_balances without a name lists exactly the players with a balance
\* other than 0, in descending order of balance, and its total is the sum of
\* the balances > 0 alone; for the example it lists Alice and Bob, total 25.00.
C17_AllBalancesListed ==
    (Shown("show_balances") /\ ~Truthy(NameFilter)) =>
        LET nonzero == SelectSeq(Snapshot, LAMBDA p : p.cents # 0)
            owing == SelectSeq(Snapshot, LAMBDA p : p.cents > 0)
            m == result.message
        IN  /\ m.tpl = "all_balances"
            /\ SameBag(m.rows, nonzero)
            /\ Descending(m.rows)
            /\ m.total = SumOf(owing, Len(owing))
            /\ Snapshot = ExampleSnapshot =>
                  /\ m.rows = <<Player(N_alice, 2500), Player(N_bob, -500)>>
                  /\ m.total = 2500

\* C17: show_balances answered for the example's snapshot, Bob's credit listed
C17_Witness ==
    /\ Shown("show_balances")
    /\ ~Truthy(NameFilter)
    /\ Snapshot = ExampleSnapshot
    /\ Len(result.message.rows) = 2

\* C18: show_balances with a name matches it as a case-insensitive substring
\* of the players' names: no match gives 'not found', one match the sentence
\* of the balance's sign (owes, has credit of the absolute amount, all paid
\* up), several matches the list of them; 'ali' with Alice owing 25.00 gives
\* 'Alice owes 25.00'.
C18_NamedBalance ==
    (Shown("show_balances") /\ Truthy(NameFilter)) =>
        LET hits == SelectSeq(Snapshot,
                              LAMBDA p : Contains(Lower(p.name), Lower(NameFilter.s)))
            m == result.message
        IN  /\ hits = <<>> =>
                  m.tpl = "not_found" /\ m.val = NameFilter /\ m.rows = <<>> /\ m.total = 0
            /\ Len(hits) = 1 =>
                  /\ m.rows = hits
                  /\ hits[1].cents > 0 => m.tpl = "owes" /\ m.total = hits[1].cents
                  /\ hits[1].cents < 0 => m.tpl = "has_credit" /\ m.total = 0 - hits[1].cents
                  /\ hits[1].cents = 0 => m.tpl = "paid_up"
            /\ Len(hits) > 1 => m.tpl = "multiple_matches" /\ m.rows = hits
            /\ (NameFilter = JStr(V_ali) /\ Snapshot = ExampleSnapshot) =>
                  /\ m.tpl = "owes"
                  /\ m.rows[1].name = N_alice
                  /\ m.total = 2500

\* C18: 'ali' found Alice, who owes 25.00
C18_Witness ==
    /\ Shown("show_balances")
    /\ NameFilter = JStr(V_ali)
    /\ Snapshot = ExampleSnapshot
    /\ result.message.tpl = "owes"

---------------------------------------------------------------------------
(* One pass per request, and an answer for every request                   *)

\* C19: within one request there is at most one classification, one handler
\* execution, one call to the service, one spreadsheet read and one send; a
\* command that reaches the handlers was classified exactly once, a request
\* answered 'processed' ran exactly one handler, and a call that failed was
\* made once and not again.
C19_SinglePass ==
    /\ net.classifications <= 1
    /\ net.handler_runs <= 1
    /\ net.llm_calls <= 1
    /\ net.sheet_reads <= 1
    /\ net.sends <= 1
    /\ (pc \in {"handle", "deliver"} \/ (pc = "done" /\ Accepted)) =>
          net.classifications = 1
    /\ (pc = "deliver" \/ AnsweredProcessed) => net.handler_runs = 1
    /\ (pc = "done" /\ Accepted /\ net.handler_runs = 0) => resp.status = 500
    /\ (Classified /\ net.llm.kind # "none" /\ CallFailed(net.llm)) => net.llm_calls = 1
    /\ SheetFailed => net.sheet_reads = 1
    /\ net.send_outcome \in {"http_error", "raise"} =>
          net.sends = 1 /\ AnsweredProcessed

\* C19: the service, the spreadsheet and the messaging service each failed
\* once and the request was answered
C19_Witness ==
    /\ AnsweredProcessed
    /\ net.llm.kind = "raise"
    /\ net.sheet.kind = "raise"
    /\ net.send_outcome = "raise"
    /\ net.llm_calls = 1 /\ net.sheet_reads = 1 /\ net.sends = 1

\* parse_intent_with_claude returns: the step Classify takes.  Classify is the
\* one action that leaves pc = "classify" and it is enabled wherever pc is
\* "classify", the key being unset or the call having an outcome.
ClassifyReturns ==
    /\ pc = "classify"
    /\ pc' \in {"handle", "done"}

\* The steps of a request in hand are taken: the code runs on without waiting
\* for anything but its external calls, and the calls to the service and to
\* the messaging service return or raise within their timeout (lines 122,
\* 179), as does the spreadsheet read, whose exceptions are caught.
FairSpec ==
    Spec /\ WF_pc(ClassifyReturns) /\ WF_vars(Handle) /\ WF_vars(Deliver)

\* the responses of the entry point
TerminalResponses ==
    {"preflight", "method_not_allowed", "no_json", "ignored", "processed", "error"}

\* C20: every request that arrives is answered: while it is processed there is
\* no response yet, it ends with one of the terminal responses, and a request
\* whose command is being processed eventually has its response, whichever
\* external calls fail.
C20_EveryRequestAnswered ==
    /\ [](pc \in {"classify", "handle", "deliver"} => resp = NoResponse)
    /\ [](pc = "done" => resp.kind \in TerminalResponses)
    /\ [][pc = "done" => (pc' = "idle" /\ resp' = NoResponse)]_vars
    /\ (pc \in {"classify", "handle", "deliver"}) ~> (pc = "done")

\* C20: a request was answered after the service and the send had failed
C20_Witness ==
    /\ pc = "done"
    /\ net.llm.kind = "raise"
    /\ net.send_outcome = "http_error"
    /\ resp.kind = "processed"

---------------------------------------------------------------------------
(* Delivery, previews and the absence of state between requests           *)

\* the message of the current request was not delivered: the credentials of
\* the messaging service are missing, or the call to it failed
SendFailed ==
    /\ pc = "done"
    /\ result # NoResult
    /\ ~ReportedDryRun(result)
    /\ \/ ~(cfg.greenapi_instance /\ cfg.greenapi_token)
       \/ net.send_outcome \in {"http_error", "raise"}

\* C21: when the messaging service fails (no credentials, a status other than
\* 200, an exception) the request is still answered 200 'processed', with the
\* intent and needs_confirmation of the result, as when the send succeeds.
C21_SendFailureNotPropagated ==
    /\ SendFailed =>
          /\ resp.status = 200
          /\ resp.kind = "processed"
          /\ resp.intent = result.intent
          /\ resp.needs_confirmation = ConfirmationOf(result.intent)
          /\ resp.error = "none"
    /\ (pc = "done" /\ net.sends = 1) =>
          resp = Processed(result)

\* C21: the send raised and the request was answered 'processed'
C21_Witness ==
    /\ SendFailed
    /\ net.send_outcome = "raise"
    /\ resp.kind = "processed"
    /\ resp.intent = "book_court"

\* the templates of the three previews
Previews ==
    [book_court |-> "book_court_preview", create_poll |-> "create_poll_preview",
     send_reminders |-> "send_reminders_preview"]

\* C22: for book_court, create_poll and send_reminders the preview handler
\* alone runs: the spreadsheet is not read, nothing but the classification's
\* call and at most one send is made, and what is sent is the preview.
C22_PreviewOnly ==
    (pc \in {"deliver", "done"} /\ result.intent \in ActionIntents) =>
        /\ result.message.tpl = Previews[result.intent]
        /\ net.handler_runs = 1
        /\ net.sheet_reads = 0
        /\ net.sheet = NoSheet
        /\ net.sends <= 1
        /\ net.sends = 1 =>
              /\ ~pcs.is_dry_run
              /\ net.sent = result.message
              /\ net.sent_to = SendTarget(cmd.chat_id, cfg)
        /\ pcs.is_dry_run => net.sends = 0

\* C22: the preview of a booking was sent, and nothing else was called
C22_Witness ==
    /\ pc = "done"
    /\ result.intent = "book_court"
    /\ net.sends = 1
    /\ net.sent.tpl = "book_court_preview"
    /\ net.sheet_reads = 0

\* the response picklebot_webhook gives to request r under configuration
\* config when the service answers reply, the spreadsheet gives sheet and the
\* clock reads now: the pipeline run from the start on these alone
ResponseTo(config, r, reply, sheet, now) ==
    IF Intake(config, r).respond THEN Intake(config, r).resp
    ELSE LET c == Intake(config, r).cmd
             cleaned == extract_dry_run_flag(c.command_text)
             intent_data == parse_intent_with_claude(cleaned.text, config.anthropic_key, reply)
         IN  IF intent_data.t # "obj" THEN InternalError(NoGet(intent_data.t))
             ELSE LET out == Dispatch(IntentOf(intent_data), ParamsOf(intent_data),
                                      cleaned.text, EffectiveDryRun(c.dry_run, cleaned.dry),
                                      config, get_player_balances(sheet), now)
                  IN  IF out.raised THEN InternalError(out.error)
                      ELSE Processed(out.result)

\* C23: nothing is carried from one request to the next.  Between requests
\* only the configuration is there, and it never changes; the response to a
\* request is the one its text, the configuration and the collaborators'
\* replies during the request give, and so is the message it sends.
C23_NoStateAcrossRequests ==
    /\ [](pc = "idle" =>
             /\ req = NoRequest /\ cmd = NoCommand /\ pcs = NoLocals
             /\ result = NoResult /\ net = NoCalls /\ resp = NoResponse)
    /\ [](pc = "done" =>
             /\ \E now \in Clock \cup {"none"} :
                   resp = ResponseTo(cfg, req, net.llm, net.sheet, now)
             /\ net.sends = 1 =>
                   /\ net.sent = result.message
                   /\ net.sent_to = SendTarget(Intake(cfg, req).cmd.chat_id, cfg))
    /\ [][cfg' = cfg]_vars

\* C23: a command was processed and its answer sent; the response is the one
\* the request, the configuration and the replies give
C23_Witness ==
    /\ pc = "done"
    /\ resp.kind = "processed"
    /\ net.sends = 1
    /\ net.classifications = 1

---------------------------------------------------------------------------
(* Unknown commands and the processed response                             *)

\* C24: for an unknown intent the result is the help-pointer message echoing
\* the unrecognized text, which is the classifier's params.raw when it has
\* one and the cleaned command otherwise; the result has intent 'unknown' and
\* no needs_confirmation, reported as false.
C24_UnknownEchoesText ==
    (pc \in {"deliver", "done"} /\ result.intent = "unknown") =>
        /\ result.message.tpl = "unknown"
        /\ result.message.val =
              IF ParamsOf(pcs.intent_data).raw.t # "absent"
              THEN ParamsOf(pcs.intent_data).raw
              ELSE JStr(pcs.cleaned_command)
        /\ result.needs_confirmation = NoConf
        /\ pc = "done" => resp.intent = "unknown" /\ ~resp.needs_confirmation

\* C24: the service gave an unknown intent without params.raw and the
\* message echoes the cleaned command
C24_Witness ==
    /\ pc = "done"
    /\ FromService
    /\ result.intent = "unknown"
    /\ ParamsOf(pcs.intent_data).raw.t = "absent"
    /\ result.message.val = JStr(pcs.cleaned_command)
    /\ pcs.cleaned_command # <<>>

\* C25: in the 'processed' response, response_message is the computed message
\* when the effective dry-run flag is true and null when it is false; the
\* message of a request that is delivered is not returned to the caller.
C25_MessageOnlyInDryRun ==
    AnsweredProcessed =>
        /\ resp.dry_run = pcs.is_dry_run
        /\ resp.dry_run =>
              /\ resp.response_message = result.message
              /\ resp.response_message # NoMessage
              /\ resp.response_message.dry_run_marker
        /\ ~resp.dry_run => resp.response_message = NoMessage
        /\ net.sends = 1 => resp.response_message = NoMessage

\* C25: a message was delivered and the response does not carry it
C25_Witness ==
    /\ AnsweredProcessed
    /\ net.sends = 1
    /\ net.send_outcome = "ok"
    /\ net.sent # NoMessage
    /\ resp.response_message = NoMessage

\* the intents process_command has a branch for, 'unknown' aside
KnownIntents == ReadOnlyIntents \cup ActionIntents

\* C27: when the classifier returned a mapping, the intent of the 'processed'
\* response is one of the eight intents; an intent of the classifier outside
\* the seven known ones, a missing intent included, is dispatched and
\* reported as 'unknown', never with needs_confirmation true.
C27_ReportedIntentEnumerated ==
    (AnsweredProcessed /\ pcs.intent_data.t = "obj") =>
        /\ resp.intent \in Intents
        /\ ~(pcs.intent_data.intent.t = "str"
             /\ pcs.intent_data.intent.name \in KnownIntents) =>
              /\ result.intent = "unknown"
              /\ result.message.tpl = "unknown"
              /\ resp.intent = "unknown"
              /\ ~resp.needs_confirmation
        /\ (pcs.intent_data.intent.t = "str"
            /\ pcs.intent_data.intent.name \in KnownIntents) =>
              resp.intent = pcs.intent_data.intent.name

\* C27: the service named an intent outside the list, with a flag asking for
\* confirmation, and the response reports 'unknown'
C27_Witness ==
    /\ AnsweredProcessed
    /\ pcs.intent_data.intent = IntentName("delete_everything")
    /\ pcs.intent_data.conf = ConfBool(TRUE)
    /\ resp.intent = "unknown"

---------------------------------------------------------------------------
(* Which dry-run token the Normalizer removes (specification SpecText)     *)

\* the positions at which the literal occurs in the lowercased text
Occurrences(text, literal) ==
    LET low == Lower(text)
    IN  {i \in 1..Len(text) : MatchAt(low, literal, i)}

\* the positions of the text that no occurrence of the literal covers
Uncovered(text, literal) ==
    LET occ == Occurrences(text, literal)
    IN  {i \in 1..Len(text) : ~\E j \in occ : j <= i /\ i < j + Len(literal)}

\* the text without the characters the occurrences of the literal cover
Without(text, literal) ==
    LET kept == Uncovered(text, literal)
    IN  [k \in 1..Cardinality(kept) |->
            text[CHOOSE i \in kept : Cardinality({j \in kept : j <= i}) = k]]

\* the token occurs in the text clear of every occurrence of the literal
OccursClearOf(text, token, literal) ==
    LET kept == Uncovered(text, literal)
    IN  \E i \in Occurrences(text, token) :
            \A k \in i..(i + Len(token) - 1) : k \in kept

\* C26: of the dry-run tokens in a text the Normalizer removes one literal,
\* the first of the list that occurs in the lowercased text as a substring,
\* in all its occurrences; a token that occurs elsewhere in the text stays;
\* a text without a token is returned as it is; and what remains is the text
\* that is classified.
C26_FirstListedTokenRemoved ==
    /\ (tx.stage = "normalized" /\ HasDryRunToken(tx.text)) =>
          LET first == FirstToken(tx.text)
              low   == Lower(tx.out.text)
          IN  /\ tx.out.dry
              /\ tx.out.text = Strip(CollapseSpaces(Strip(Without(tx.text, first))))
              /\ \A i \in 1..Len(DRY_RUN_FLAGS) :
                    (/\ DRY_RUN_FLAGS[i] # first
                     /\ OccursClearOf(tx.text, DRY_RUN_FLAGS[i], first)) =>
                        Contains(low, DRY_RUN_FLAGS[i])
    /\ (tx.stage = "normalized" /\ ~HasDryRunToken(tx.text)) =>
          tx.out = [text |-> tx.text, dry |-> FALSE]
    /\ tx.stage = "classified" => tx.intent = parse_intent_fallback(tx.out.text)

\* C26: a text with '-n' before '--dry': '--dry', listed first, was removed
\* and '-n' stayed
C26_Witness ==
    /\ tx.stage = "normalized"
    /\ HasDryRunToken(tx.text)
    /\ FirstToken(tx.text) = F_dry_long
    /\ OccursClearOf(tx.text, F_n, F_dry_long)
    /\ Contains(tx.out.text, F_n)
    /\ Occurrences(tx.text, F_n) # {}
    /\ \A i \in Occurrences(tx.text, F_n), j \in Occurrences(tx.text, F_dry_long) : i < j

---------------------------------------------------------------------------
(* The text the fallback matches for a command (specification Spec)        *)

\* the lowercased, trimmed text after the one command prefix it begins with;
\* trimming may already have taken the blank that ends the prefix
RemainderAfterPrefix(text) ==
    LET low  == Strip(Lower(text))
        hits == {i \in 1..Len(COMMAND_PREFIXES) :
                    StartsWith(low, RStrip(Lower(COMMAND_PREFIXES[i])))}
    IN  IF hits = {} THEN low
        ELSE Strip(Drop(low, Len(RStrip(COMMAND_PREFIXES[Min(hits)]))))

\* C28: for a text accepted as a command the fallback matches its rules
\* against the lowercased, trimmed remainder after the leading prefix; a
\* command of the prefix alone, or of the prefix and a dry-run token, is
\* matched as the empty text, and the unknown message does not echo the prefix.
C28_FallbackMatchesRemainder ==
    (FromFallback /\ IsCommand(cmd.command_text)) =>
        /\ pcs.intent_data = FallbackRules(RemainderAfterPrefix(pcs.cleaned_command))
        /\ (pc \in {"deliver", "done"} /\ result.intent = "unknown") =>
              ~CarriesPrefix(result.message.val.s)

=============================================================================
